---- MODULE Spec2Model ----
(***************************************************************************)
(* The remote tool-invocation (MCP) client of pi-exa-mcp and               *)
(* pi-firecrawl-mcp: the session handshake (ensureInitialized/initialize), *)
(* the request send with its merged cancellation signal (sendJsonRpc,      *)
(* createMergedSignal) and the tool entry point (execute -> callTool).     *)
(* The two packages carry near-identical copies of the client; the         *)
(* variable `variant` selects which copy a behaviour follows.              *)
(***************************************************************************)
EXTENDS Integers, FiniteSets, Sequences, TLC

\* Number of tool executions (execute -> callTool) a behaviour of Spec starts.
MaxCalls == 2
\* Number of tool executions a behaviour of SpecRace starts: the races between
\* a handshake of an earlier session and the calls of the current one need a
\* third execution.
MaxRaceCalls == 3

\* The timeout parseTimeoutMs yields when nothing is configured; whatever is
\* configured, parseTimeoutMs never yields a value <= 0.
DEFAULT_TIMEOUT_MS == 30000

Calls == 1..(IF MaxCalls > MaxRaceCalls THEN MaxCalls ELSE MaxRaceCalls)
\* The executions Spec starts.
SpecCalls == 1..MaxCalls
Endpoints == {"A", "B"}
Variants == {"exa", "firecrawl"}
NoEndpoint == "null"
NoCall == 0
Methods == {"initialize", "notifications/initialized", "tools/call"}
Slots == Methods \X Calls

\* What the network can answer to a request that was sent.
RequestAnswers == {"result", "rpcError", "protocolError", "transportError"}
\* What the network can answer to a notification.
NotificationAnswers == {"result", "transportError"}
\* How reading an event stream can end.
StreamAnswers == {"result", "rpcError", "protocolError"}

VARIABLES
    variant,          \* which copy of the client runs
    cfgEndpoint,      \* resolveEndpoint() / getConfig().endpoint
    requestCounter,   \* McpClient.requestCounter
    session,          \* McpClient.initialized / initializing / lastEndpoint
    initOk,           \* history: endpoints whose `initialize` succeeded since the last reset
    shaken,           \* history: endpoints whose whole handshake succeeded since the last reset
    readyEp,          \* history: endpoint of the handshake that set `initialized`
    call,             \* one entry per tool execution
    hs,               \* one entry per handshake attempt, keyed by the call that started it
    send,             \* one entry per sendJsonRpc, keyed by method and call
    eval              \* the evaluation of one function on one input, outside the client

vars == <<variant, cfgEndpoint, requestCounter, session, initOk, shaken, readyEp,
          call, hs, send, eval>>

\* The variables of the client.
clientVars == <<cfgEndpoint, requestCounter, session, initOk, shaken, readyEp,
                call, hs, send>>

NoSend == [stage |-> "none", ep |-> NoEndpoint, id |-> 0, parent |-> NoCall,
           timer |-> FALSE, listener |-> FALSE, aborted |-> FALSE,
           sent |-> FALSE, cleaned |-> FALSE]

NoHandshake == [st |-> "unused", ep |-> NoEndpoint]

\* A handshake attempt that settled: only its outcome is kept.
Settled(outcome) == [st |-> outcome, ep |-> NoEndpoint]

\* The handshake attempt is under way.
InFlight(h) == hs[h].st \in {"initReq", "notif"}

\* stale: the session was reset while the call waited for its handshake.
NewCall == [pc |-> "idle", aborted |-> FALSE, awaits |-> NoCall, stale |-> FALSE]

\* A tool execution that returned: only its outcome is kept.
Finished(outcome) == [NewCall EXCEPT !.pc = outcome]

NewSession == [initialized |-> FALSE, initializing |-> NoCall, lastEndpoint |-> NoEndpoint]

\* No function is being evaluated.
NoEval == [fn |-> "none"]

ClientInit ==
    /\ variant \in Variants
    /\ cfgEndpoint = "A"
    /\ requestCounter = 0
    /\ session = NewSession
    /\ initOk = {}
    /\ shaken = {}
    /\ readyEp = NoEndpoint
    /\ call = [c \in Calls |-> NewCall]
    /\ hs = [c \in Calls |-> NoHandshake]
    /\ send = [s \in Slots |-> NoSend]

Init ==
    /\ ClientInit
    /\ eval = NoEval

----------------------------------------------------------------------------
\* createMergedSignal(parentSignal, timeoutMs): the merged controller is
\* aborted at once when the parent is already aborted, otherwise a listener
\* is attached to the parent; a timer is armed when timeoutMs > 0.
createMergedSignalNoTimer(hasParent, parentAborted, t) ==
    [aborted  |-> hasParent /\ parentAborted,
     listener |-> hasParent /\ ~parentAborted,
     timer    |-> FALSE]
createMergedSignal(hasParent, parentAborted, t) ==
    [aborted  |-> hasParent /\ parentAborted,
     listener |-> hasParent /\ ~parentAborted,
     timer    |-> t > 0]

\* The cleanup closure returned by createMergedSignal.
cleanupKeepsListener(r) == [r EXCEPT !.timer = FALSE, !.cleaned = TRUE]
cleanupDropsNothing(r) == [r EXCEPT !.cleaned = TRUE]
cleanup(r) == [r EXCEPT !.timer = FALSE, !.listener = FALSE, !.cleaned = TRUE]

\* nextId(): the counter after the increment is the id.
nextIdStuck(counter) == counter
nextId(counter) == counter + 1

\* The signal initialize() passes to its two messages: the starting caller's
\* signal in pi-exa-mcp, undefined in pi-firecrawl-mcp.
HandshakeSignal(c) == IF variant = "exa" THEN c ELSE NoCall

\* sendJsonRpc up to the fetch call: a fetch whose signal is already aborted
\* rejects without issuing the HTTP request.
sendJsonRpc(ep, id, parent, parentAborted) ==
    LET m == createMergedSignal(parent # NoCall, parentAborted, DEFAULT_TIMEOUT_MS)
    IN  [stage |-> "fetch", ep |-> ep, id |-> id, parent |-> parent,
         timer |-> m.timer, listener |-> m.listener, aborted |-> m.aborted,
         sent |-> ~m.aborted, cleaned |-> FALSE]

\* A send that returned or threw: only the resources it still holds are kept.
Returned(r) == [NoSend EXCEPT !.timer = r.timer, !.listener = r.listener]

----------------------------------------------------------------------------
\* execute(): `if (signal?.aborted) return Cancelled` before anything else.
ShortCircuitNever(aborted) == FALSE
ShortCircuit(aborted) == aborted

\* ensureInitialized, first block: an endpoint other than the remembered one
\* resets the session.
ResetKeepsInitializing(s, e) ==
    IF s.lastEndpoint # e
    THEN [s EXCEPT !.initialized = FALSE, !.lastEndpoint = e]
    ELSE s
ResetOnEndpointChange(s, e) ==
    IF s.lastEndpoint # e
    THEN [initialized |-> FALSE, initializing |-> NoCall, lastEndpoint |-> e]
    ELSE s

\* ensureInitialized: `if (!this.initializing)` starts a handshake.
StartsHandshakeAlways(s) == TRUE
StartsHandshake(s) == s.initializing = NoCall

\* No handshake attempt has settled yet.
NoneCompleted == \A h \in Calls : hs[h].st \in {"unused", "initReq", "notif"}

\* The session reset leaves the calls that wait for a handshake with a
\* handshake of an earlier session.
Outdate(cl) == [d \in Calls |-> IF cl[d].pc = "waitHs"
                                 THEN [cl[d] EXCEPT !.stale = TRUE] ELSE cl[d]]

\* execute() -> callTool() -> ensureInitialized(), up to the first await on
\* the network or on the in-flight handshake.  `aborted` tells whether the
\* caller's signal is already aborted on entry.  Executions are numbered in
\* the order they start.
Execute(c, aborted) ==
    /\ call[c].pc = "idle"
    /\ \A d \in Calls : d < c => call[d].pc # "idle"
    /\ IF ShortCircuit(aborted)
       THEN /\ call' = [call EXCEPT ![c] = Finished("cancelled")]
            /\ UNCHANGED <<requestCounter, session, initOk, shaken, readyEp, hs, send>>
       ELSE LET e     == cfgEndpoint
                reset == session.lastEndpoint # e
                s1    == ResetOnEndpointChange(session, e)
                base  == [call[c] EXCEPT !.aborted = aborted]
                cl    == IF reset THEN Outdate(call) ELSE call
            IN  /\ initOk' = IF reset THEN {} ELSE initOk
                /\ shaken' = IF reset THEN {} ELSE shaken
                /\ readyEp' = IF s1.initialized THEN readyEp ELSE NoEndpoint
                /\ IF s1.initialized
                   THEN \* Ready: straight on to sendRequest("tools/call")
                        /\ session' = s1
                        /\ requestCounter' = nextId(requestCounter)
                        /\ send' = [send EXCEPT ![<<"tools/call", c>>] =
                                      sendJsonRpc(e, nextId(requestCounter), c, aborted)]
                        /\ call' = [cl EXCEPT ![c] = [base EXCEPT !.pc = "toolReq"]]
                        /\ hs' = hs
                   ELSE IF variant = "firecrawl" /\ aborted
                   THEN \* pi-firecrawl-mcp: `if (signal?.aborted) throw`
                        /\ session' = s1
                        /\ call' = [cl EXCEPT ![c] = [base EXCEPT !.pc = "aborted"]]
                        /\ UNCHANGED <<requestCounter, hs, send>>
                   ELSE IF StartsHandshake(s1)
                   THEN \* start the handshake: initialize() sends `initialize`
                        /\ session' = [s1 EXCEPT !.initializing = c]
                        /\ requestCounter' = nextId(requestCounter)
                        /\ hs' = [hs EXCEPT ![c] = [st |-> "initReq", ep |-> e]]
                        /\ send' = [send EXCEPT ![<<"initialize", c>>] =
                                      sendJsonRpc(e, nextId(requestCounter),
                                                  HandshakeSignal(c), aborted)]
                        /\ call' = [cl EXCEPT ![c] = [base EXCEPT !.pc = "waitHs", !.awaits = c]]
                   ELSE \* coalesce onto the handshake in flight
                        /\ session' = s1
                        /\ call' = [cl EXCEPT ![c] = [base EXCEPT !.pc = "waitHs",
                                                         !.awaits = s1.initializing]]
                        /\ UNCHANGED <<requestCounter, hs, send>>
    /\ UNCHANGED <<variant, cfgEndpoint, eval>>

\* The configuration layer resolves a different endpoint from now on.
ChangeEndpoint(e) ==
    /\ e # cfgEndpoint
    /\ cfgEndpoint' = e
    /\ UNCHANGED <<variant, requestCounter, session, initOk, shaken, readyEp,
                   call, hs, send, eval>>

----------------------------------------------------------------------------
\* The callers suspended in `await this.initializing` on handshake h.
Waiters(cl, h) == {c \in Calls : cl[c].pc = "waitHs" /\ cl[c].awaits = h}

\* Position of c among the waiters, in the order they started waiting.
Rank(W, c) == Cardinality({d \in W : d <= c})

\* The promise chain of ensureInitialized after the handshake resolved:
\* `this.initialized = true`, then `.finally` clears `initializing`.
OnHandshakeSuccess(s) == [s EXCEPT !.initialized = TRUE, !.initializing = NoCall]

\* The promise chain after the handshake rejected: `.catch` clears
\* `initialized`, `.finally` clears `initializing`.
OnHandshakeFailureStuck(s) == [s EXCEPT !.initialized = FALSE]
OnHandshakeFailure(s) == [s EXCEPT !.initialized = FALSE, !.initializing = NoCall]

\* callTool when sendRequest("tools/call") throws: the error propagates and
\* no field of the client is written.
OnToolFailureResets(s) == [s EXCEPT !.initialized = FALSE]
OnToolFailure(s) == s

\* A sendJsonRpc settles (its `finally` runs cleanup) and the code awaiting it
\* continues: initialize() goes on to the notification, the handshake promise
\* settles and resumes every waiter, or callTool returns or throws.
\* r is "ok", "error" or "abort" (an AbortError); cl is the state of the calls
\* at the moment the send settles.
Settle(s, r, cl) ==
    LET m      == s[1]
        c      == s[2]
        ok     == r = "ok"
        thrown == IF r = "abort" THEN "aborted" ELSE "failed"
        done   == Returned(IF send[s].stage = "sse" THEN send[s] ELSE cleanup(send[s]))
        hsOk   == m = "notifications/initialized" /\ ok
        hsFail == m # "tools/call" /\ ~ok
        W      == IF hsOk \/ hsFail THEN Waiters(cl, c) ELSE {}
        par    == send[s].parent
    IN  /\ send' = [x \in Slots |->
              IF x = s THEN done
              ELSE IF m = "initialize" /\ ok /\ x = <<"notifications/initialized", c>>
                   THEN sendJsonRpc(hs[c].ep, 0, par, par # NoCall /\ cl[par].aborted)
              ELSE IF hsOk /\ x[1] = "tools/call" /\ x[2] \in W
                   THEN sendJsonRpc(cfgEndpoint, requestCounter + Rank(W, x[2]),
                                    x[2], cl[x[2]].aborted)
              ELSE send[x]]
        /\ requestCounter' = IF hsOk THEN requestCounter + Cardinality(W) ELSE requestCounter
        /\ hs' = IF m = "tools/call" THEN hs
                 ELSE IF m = "initialize" /\ ok THEN [hs EXCEPT ![c].st = "notif"]
                 ELSE [hs EXCEPT ![c] = Settled(IF ok THEN "ok" ELSE "failed")]
        /\ session' = IF hsOk THEN OnHandshakeSuccess(session)
                      ELSE IF hsFail THEN OnHandshakeFailure(session)
                      ELSE IF m = "tools/call" /\ ~ok THEN OnToolFailure(session)
                      ELSE session
        /\ initOk' = IF m = "initialize" /\ ok THEN initOk \cup {hs[c].ep} ELSE initOk
        /\ shaken' = IF hsOk THEN shaken \cup {hs[c].ep} ELSE shaken
        /\ readyEp' = IF hsOk THEN hs[c].ep
                      ELSE IF session'.initialized THEN readyEp ELSE NoEndpoint
        /\ call' = [d \in Calls |->
              IF d \in W
              THEN (IF hsOk
                    THEN [cl[d] EXCEPT !.pc = "toolReq", !.awaits = NoCall, !.stale = FALSE]
                    ELSE Finished(thrown))
              ELSE IF m = "tools/call" /\ d = c
              THEN Finished(IF ok THEN "ok" ELSE thrown)
              ELSE cl[d]]
        /\ UNCHANGED <<variant, cfgEndpoint, eval>>

\* The answers the network can give to the message in slot s.
AnswersFor(s) == IF s[1] = "notifications/initialized"
                 THEN NotificationAnswers ELSE RequestAnswers

\* The response arrives as a single body (JSON, an HTTP error, an unexpected
\* content type, or a network failure) and sendJsonRpc returns or throws.
Respond(s, r) ==
    /\ send[s].stage = "fetch"
    /\ send[s].sent
    /\ ~send[s].aborted
    /\ r \in AnswersFor(s)
    /\ Settle(s, IF r = "result" THEN "ok" ELSE "error", call)

\* The response headers announce text/event-stream: sendJsonRpc returns the
\* promise of parseSseResponse without awaiting it, so its `finally` runs
\* cleanup before the body is read.
RespondSse(s) ==
    /\ s[1] # "notifications/initialized"
    /\ send[s].stage = "fetch"
    /\ send[s].sent
    /\ ~send[s].aborted
    /\ send' = [send EXCEPT ![s] = [cleanup(send[s]) EXCEPT !.stage = "sse"]]
    /\ UNCHANGED <<variant, cfgEndpoint, requestCounter, session, initOk, shaken,
                   readyEp, call, hs, eval>>

\* parseSseResponse finds the matching frame (a result or a JSON-RPC error)
\* or the stream ends without one.
SseDeliver(s, r) ==
    /\ send[s].stage = "sse"
    /\ r \in StreamAnswers
    /\ Settle(s, IF r = "result" THEN "ok" ELSE "error", call)

\* The timer armed by createMergedSignal fires: controller.abort() makes the
\* pending fetch reject.
Timeout(s) ==
    /\ send[s].stage = "fetch"
    /\ send[s].timer
    /\ ~send[s].aborted
    /\ Settle(s, "abort", call)

\* fetch was called with a signal that was already aborted: it rejects.
FetchAborted(s) ==
    /\ send[s].stage = "fetch"
    /\ send[s].aborted
    /\ Settle(s, "abort", call)

\* The sends whose `once` listener is attached to the signal of call c.
Listening(c) == {s \in Slots : send[s].parent = c /\ send[s].listener}

\* The caller's AbortSignal fires while its call is under way.  In
\* pi-firecrawl-mcp awaitWithAbort rejects the caller's wait on the
\* handshake; a listener attached by createMergedSignal aborts its
\* controller, and the pending fetch rejects.
Abort(c) ==
    /\ ~call[c].aborted
    /\ call[c].pc \in {"waitHs", "toolReq"}
    /\ LET cl == [call EXCEPT ![c] =
                    IF variant = "firecrawl" /\ call[c].pc = "waitHs"
                    THEN Finished("aborted")
                    ELSE [call[c] EXCEPT !.aborted = TRUE]]
       IN  IF \E s \in Listening(c) : send[s].stage = "fetch"
           THEN \E s \in Listening(c) : send[s].stage = "fetch" /\ Settle(s, "abort", cl)
           ELSE /\ call' = cl
                /\ UNCHANGED <<variant, cfgEndpoint, requestCounter, session, initOk,
                               shaken, readyEp, hs, send, eval>>

\* Every step but the start of an execution.
Progress ==
    \/ \E e \in Endpoints : ChangeEndpoint(e)
    \/ \E c \in Calls : Abort(c)
    \/ \E s \in Slots, r \in RequestAnswers : Respond(s, r)
    \/ \E s \in Slots : RespondSse(s)
    \/ \E s \in Slots, r \in StreamAnswers : SseDeliver(s, r)
    \/ \E s \in Slots : Timeout(s)
    \/ \E s \in Slots : FetchAborted(s)

Next ==
    \/ \E c \in SpecCalls, aborted \in BOOLEAN : Execute(c, aborted)
    \/ Progress

Spec == Init /\ [][Next]_vars

NextRace ==
    \/ \E c \in Calls, aborted \in BOOLEAN : Execute(c, aborted)
    \/ Progress

SpecRace == Init /\ [][NextRace]_vars

\* What the client's own scheduling guarantees whatever the server does: an
\* armed timer fires unless its send settles first, and a fetch called with
\* an aborted signal rejects.  Nothing makes the server answer, the caller
\* cancel or the configuration change.
Fairness == \A s \in Slots : WF_vars(Timeout(s)) /\ WF_vars(FetchAborted(s))

SpecLive == Init /\ [][Next]_vars /\ Fairness

----------------------------------------------------------------------------
\* The response payloads handed to extractJsonRpcResponse.

\* Largest number of items of a batch (array) response.
MaxItems == 2

\* A response object without an `id` member.
NoId == 0
\* The ids requests are sent with.
RequestIds == {1, 2}

\* A JSON object: whether its `jsonrpc` member is "2.0", its id, and whether
\* it has an `error` member (otherwise a `result`).
JsonObjects == [jsonrpc : BOOLEAN, id : RequestIds \cup {NoId}, error : BOOLEAN]

\* The sequences over S of length at most n.
SeqUpTo(S, n) == UNION {[1..k -> S] : k \in 0..n}

\* A decoded response body: an array, a single object, or anything else
\* (undefined after a 202/204, a string, a number).
Payloads ==
    {[type |-> "array", items |-> q] : q \in SeqUpTo(JsonObjects, MaxItems)}
    \cup {[type |-> "object", items |-> <<o>>] : o \in JsonObjects}
    \cup {[type |-> "other", items |-> <<>>]}

\* isJsonRpcResponse(value), for a value that is a record.
isJsonRpcResponse(o) == o.jsonrpc

\* extractJsonRpcResponse(response, requestId): the response object taken as
\* the answer, or the error thrown.
extractJsonRpcResponse(response, requestId) ==
    IF response.type = "array"
    THEN LET hits == {i \in DOMAIN response.items :
                        /\ isJsonRpcResponse(response.items[i])
                        /\ response.items[i].id = requestId}
         IN  IF hits # {}
             THEN [kind |-> "answer",
                   json |-> response.items[CHOOSE i \in hits : \A j \in hits : i <= j]]
             ELSE [kind |-> "thrown", error |-> "noMatchingId"]
    ELSE IF response.type = "object" /\ isJsonRpcResponse(response.items[1])
    THEN [kind |-> "answer", json |-> response.items[1]]
    ELSE [kind |-> "thrown", error |-> "invalidPayload"]

\* sendRequest after sendJsonRpc returned: the result of the answer is
\* returned, its error is thrown.
sendRequest(response, requestId) ==
    LET x == extractJsonRpcResponse(response, requestId)
    IN  IF x.kind = "thrown" THEN x
        ELSE [kind |-> IF x.json.error THEN "rpcError" ELSE "result", json |-> x.json]

ExtractInit ==
    /\ ClientInit
    /\ eval \in [fn : {"sendRequest"}, requestId : RequestIds, response : Payloads,
                  out : {[kind |-> "pending"]}]

\* sendRequest receives the decoded body and returns or throws.
Extract ==
    /\ eval.fn = "sendRequest"
    /\ eval.out.kind = "pending"
    /\ eval' = [eval EXCEPT !.out = sendRequest(eval.response, eval.requestId)]
    /\ UNCHANGED <<variant, clientVars>>

ExtractNext == Extract

SpecExtract == ExtractInit /\ [][ExtractNext]_vars

----------------------------------------------------------------------------
\* parseSseResponse: the event-stream decoder.

\* Largest number of text pieces of a response body.
MaxStream == 3

\* The JSON-RPC frames a body can hold, `data: {"jsonrpc":"2.0","id":k,...}`,
\* and the id of each.
FrameBodies == {"f1", "f2", "f3"}
FrameIdOf == [f1 |-> 1, f2 |-> 2, f3 |-> 3]

\* Text that begins with the `data:` marker: a frame, `data: [DONE]` (or a
\* bare `data:`), and `data:` followed by something that is not JSON.
DataBodies == FrameBodies \cup {"done", "bad"}

\* A piece of body text and whether a newline ends it: every frame with and
\* without its newline, the other `data:` texts, a line that is no `data:`
\* line ("event"), each with its newline, and the bare newline.
Pieces ==
    {[body |-> b, nl |-> TRUE] : b \in DataBodies \cup {"event", ""}}
    \cup {[body |-> b, nl |-> FALSE] : b \in FrameBodies}

\* The text of a run of pieces, without its newline.
Text(q) == SelectSeq([i \in 1..Len(q) |-> q[i].body], LAMBDA b : b # "")

\* The handling of one line: the matching frame, or nothing.
parseLineAnyId(text, requestId) ==
    IF text = <<>> \/ Head(text) \notin DataBodies THEN [kind |-> "skip"]
    ELSE IF text = <<"done">> THEN [kind |-> "skip"]
    ELSE IF ~(Len(text) = 1 /\ text[1] \in FrameBodies) THEN [kind |-> "skip"]
    ELSE [kind |-> "match"]
parseLine(text, requestId) ==
    \* `if (!line.startsWith("data:")) continue`
    IF text = <<>> \/ Head(text) \notin DataBodies THEN [kind |-> "skip"]
    \* `if (!data || data === "[DONE]") continue`
    ELSE IF text = <<"done">> THEN [kind |-> "skip"]
    \* JSON.parse throws: `catch { }`
    ELSE IF ~(Len(text) = 1 /\ text[1] \in FrameBodies) THEN [kind |-> "skip"]
    \* `parsed.id === requestId`
    ELSE IF FrameIdOf[text[1]] = requestId THEN [kind |-> "match"]
    ELSE [kind |-> "skip"]

\* The inner loop of parseSseResponse over the buffer: lines are cut off at
\* the first newline and handled one by one until one matches or no newline
\* is left.  n counts the lines handled.
RECURSIVE Drain(_, _, _)
Drain(buf, requestId, n) ==
    LET ends == {i \in 1..Len(buf) : buf[i].nl}
    IN  IF ends = {}
        THEN [buffer |-> buf, kind |-> "more", examined |-> n]
        ELSE LET idx  == CHOOSE i \in ends : \A j \in ends : i <= j
                 line == Text(SubSeq(buf, 1, idx))
                 rest == SubSeq(buf, idx + 1, Len(buf))
                 r    == parseLine(line, requestId)
             IN  IF r.kind = "skip"
                 THEN Drain(rest, requestId, n + 1)
                 ELSE [buffer |-> rest, kind |-> r.kind, examined |-> n + 1]

\* The code after the read loop: pi-firecrawl-mcp parses what is left in
\* the buffer once more; pi-exa-mcp tests `matched`, which is never set at
\* this point, and throws.
AfterStreamEnd(v, buf, requestId) ==
    IF v = "firecrawl" /\ Text(buf) # <<>> /\ parseLine(Text(buf), requestId).kind = "match"
    THEN [kind |-> "returned", id |-> requestId]
    ELSE [kind |-> "thrown", error |-> "noMatchingResult"]

SseInit ==
    /\ ClientInit
    /\ eval \in [fn : {"parseSseResponse"}, requestId : RequestIds,
                  input : SeqUpTo(Pieces, MaxStream), pos : {0}, buffer : {<<>>},
                  examined : {0}, cancelled : {FALSE}, out : {[kind |-> "pending"]}]

\* reader.read() yields the next n pieces of the body as one chunk.
SseRead(n) ==
    /\ eval.fn = "parseSseResponse"
    /\ eval.out.kind = "pending"
    /\ n >= 1
    /\ eval.pos + n <= Len(eval.input)
    /\ LET chunk == SubSeq(eval.input, eval.pos + 1, eval.pos + n)
           d     == Drain(eval.buffer \o chunk, eval.requestId, eval.examined)
       IN  eval' = [eval EXCEPT
                      !.pos = eval.pos + n,
                      !.buffer = d.buffer,
                      !.examined = d.examined,
                      !.cancelled = d.kind = "match",
                      !.out = IF d.kind = "match"
                              THEN [kind |-> "returned", id |-> eval.requestId]
                              ELSE eval.out]
    /\ UNCHANGED <<variant, clientVars>>

\* reader.read() reports the end of the body.
SseEnd ==
    /\ eval.fn = "parseSseResponse"
    /\ eval.out.kind = "pending"
    /\ eval.pos = Len(eval.input)
    /\ eval' = [eval EXCEPT !.out = AfterStreamEnd(variant, eval.buffer, eval.requestId)]
    /\ UNCHANGED <<variant, clientVars>>

SseNext ==
    \/ \E n \in 1..MaxStream : SseRead(n)
    \/ SseEnd

SpecSse == SseInit /\ [][SseNext]_vars

\* The lines of a whole body: the positions of its newlines, the text of the
\* line a newline ends, and the number of that line.
LineEnds(input) == {j \in 1..Len(input) : input[j].nl}
LineStart(input, j) ==
    LET before == {k \in LineEnds(input) : k < j}
    IN  IF before = {} THEN 1 ELSE 1 + CHOOSE k \in before : \A l \in before : l <= k
LineText(input, j) == Text(SubSeq(input, LineStart(input, j), j))
LineNo(input, j) == Cardinality({k \in LineEnds(input) : k <= j})

\* The newlines that end a line holding exactly the frame with the id.
MatchEnds(input, requestId) ==
    {j \in LineEnds(input) :
        /\ Len(LineText(input, j)) = 1
        /\ LineText(input, j)[1] \in FrameBodies
        /\ FrameIdOf[LineText(input, j)[1]] = requestId}

\* What follows the last newline of the body.
Residual(input) ==
    LET e == LineEnds(input)
    IN  IF e = {} THEN input
        ELSE SubSeq(input, 1 + (CHOOSE k \in e : \A l \in e : l <= k), Len(input))

----------------------------------------------------------------------------
\* formatToolOutput and writeTempFile: the overflow file of a truncated output.

\* Largest number of overflow files written and largest reading of Date.now().
MaxSpills == 2
MaxClock == 1

Packages == {"pi-exa-mcp", "pi-firecrawl", "pi-firecrawl-mcp"}

\* Tool names as strings of characters; "." stands for any character outside
\* [a-z0-9_-].
ToolNames == {<<"a", "_", "b">>, <<"a", ".", "b">>, <<"c">>}
Texts == {"", "t1", "t2"}
\* `tempFile` undefined: no file.
NoPath == [prefix |-> "undefined", name |-> <<>>, stamp |-> 0]

\* What truncateHead reports of a text, as far as formatToolOutput reads it
\* to decide on the file and the notices.
Truncations == [truncated : BOOLEAN, firstLineExceedsLimit : BOOLEAN]

\* `toolName.replace(/[^a-z0-9_-]/gi, "_")`
safeName(toolName) ==
    [i \in 1..Len(toolName) |-> IF toolName[i] = "." THEN "_" ELSE toolName[i]]

\* `join(tmpdir(), `${package}-${safeName}-${Date.now()}.txt`)`
filePath(package, toolName, now) ==
    [prefix |-> package, name |-> safeName(toolName), stamp |-> now]

FormattedDropsPath(rawText, t, tempFile) ==
    [kind      |-> "returned",
     rawText   |-> rawText,
     truncated |-> t.truncated,
     tempFile  |-> NoPath,
     notice    |-> NoPath,
     firstLine |-> IF t.firstLineExceedsLimit /\ rawText # "" THEN "N/A" ELSE "none"]

\* formatToolOutput's result: the file it names in details.tempFile and in
\* the truncation notice, and what the first-line notice names: nothing (no
\* such notice), the file, or "N/A".
Formatted(rawText, t, tempFile) ==
    [kind      |-> "returned",
     rawText   |-> rawText,
     truncated |-> t.truncated,
     tempFile  |-> tempFile,
     notice    |-> IF t.truncated THEN tempFile ELSE NoPath,
     firstLine |-> IF t.firstLineExceedsLimit /\ rawText # ""
                   THEN (IF tempFile = NoPath THEN "N/A" ELSE "tempFile")
                   ELSE "none"]

\* `writeFileSync(filePath, content, "utf-8")`: the file is created or
\* replaced.
writeFileSync(files, path, content) ==
    {f \in files : f.path # path} \cup {[path |-> path, content |-> content]}

SpillInit ==
    /\ ClientInit
    /\ eval \in [fn : {"formatToolOutput"}, package : Packages, now : {0},
                  files : {{}}, log : {<<>>}, last : {[kind |-> "none"]}]

\* Date.now() advances.
Tick ==
    /\ eval.fn = "formatToolOutput"
    /\ eval.now < MaxClock
    /\ eval' = [eval EXCEPT !.now = eval.now + 1]
    /\ UNCHANGED <<variant, clientVars>>

\* formatToolOutput(toolName, _, rawText, _) where truncateHead reports t;
\* writeFileSync succeeds or throws.
Format(toolName, rawText, t, writeOk) ==
    /\ eval.fn = "formatToolOutput"
    /\ Len(eval.log) < MaxSpills
    /\ LET path == filePath(eval.package, toolName, eval.now)
       IN  IF ~t.truncated
           THEN eval' = [eval EXCEPT !.last = Formatted(rawText, t, NoPath)]
           ELSE IF writeOk
           THEN eval' = [eval EXCEPT
                           !.files = writeFileSync(eval.files, path, rawText),
                           !.log = Append(eval.log, [path |-> path, content |-> rawText]),
                           !.last = Formatted(rawText, t, path)]
           ELSE eval' = [eval EXCEPT !.last = [kind |-> "thrown"]]
    /\ UNCHANGED <<variant, clientVars>>

\* The text of no bytes is within every budget and is never truncated.
SpillNext ==
    \/ Tick
    \/ \E toolName \in ToolNames, rawText \in Texts, t \in Truncations, writeOk \in BOOLEAN :
          /\ rawText = "" => ~t.truncated
          /\ Format(toolName, rawText, t, writeOk)

SpecSpill == SpillInit /\ [][SpillNext]_vars

----------------------------------------------------------------------------
\* splitParams and resolveEffectiveLimits: the limits of one call.

\* Limits range over MinLimit..MaxLimit.
MaxLimit == 3
MinLimit == -1
Limits == MinLimit..MaxLimit

\* `number | undefined`
Undefined == [def |-> FALSE]
Num(k) == [def |-> TRUE, n |-> k]

\* What a tool parameter can hold: nothing, a number, a string that is a
\* numeral, the empty string, a string that is no numeral.
ParamValues ==
    {[type |-> "undefined"], [type |-> "string", text |-> "empty"],
     [type |-> "string", text |-> "junk"]}
    \cup {[type |-> "number", n |-> k] : k \in Limits}
    \cup {[type |-> "string", text |-> "numeral", n |-> k] : k \in Limits}

\* normalizeNumber: a finite number, or a string whose Number() is finite
\* (Number("") is 0), else undefined.
normalizeNumber(value) ==
    IF value.type = "number" THEN Num(value.n)
    ELSE IF value.type = "string" /\ value.text = "numeral" THEN Num(value.n)
    ELSE IF value.type = "string" /\ value.text = "empty" THEN Num(0)
    ELSE Undefined

\* splitParams: requestedLimits
splitParams(params) ==
    [maxBytes |-> normalizeNumber(params.piMaxBytes),
     maxLines |-> normalizeNumber(params.piMaxLines)]

\* Math.min
Min(a, b) == IF a < b THEN a ELSE b

resolveNoClamp(requested, maxAllowed) ==
    [maxBytes |-> IF requested.maxBytes.def THEN requested.maxBytes.n ELSE maxAllowed.maxBytes,
     maxLines |-> IF requested.maxLines.def THEN requested.maxLines.n ELSE maxAllowed.maxLines]
resolveEffectiveLimits(requested, maxAllowed) ==
    LET requestedBytes == IF requested.maxBytes.def THEN requested.maxBytes.n
                          ELSE maxAllowed.maxBytes
        requestedLines == IF requested.maxLines.def THEN requested.maxLines.n
                          ELSE maxAllowed.maxLines
    IN  [maxBytes |-> Min(requestedBytes, maxAllowed.maxBytes),
         maxLines |-> Min(requestedLines, maxAllowed.maxLines)]

LimitsInit ==
    /\ ClientInit
    /\ eval \in [fn : {"resolveEffectiveLimits"},
                  params : [piMaxBytes : ParamValues, piMaxLines : ParamValues],
                  maxAllowed : [maxBytes : Limits, maxLines : Limits],
                  out : {[kind |-> "pending"]}]

\* execute: splitParams(params), getMaxLimits(), resolveEffectiveLimits(...)
ResolveLimits ==
    /\ eval.fn = "resolveEffectiveLimits"
    /\ eval.out.kind = "pending"
    /\ LET requestedLimits == splitParams(eval.params)
       IN  eval' = [eval EXCEPT
                      !.out = [kind |-> "returned",
                               requestedLimits |-> requestedLimits,
                               effectiveLimits |->
                                 resolveEffectiveLimits(requestedLimits, eval.maxAllowed)]]
    /\ UNCHANGED <<variant, clientVars>>

LimitsNext == ResolveLimits

SpecLimits == LimitsInit /\ [][LimitsNext]_vars

----------------------------------------------------------------------------
\* pi-cut-stack: the editor shortcuts cut and pop.

\* Largest number of characters in the editor and the stack together.
MaxText == 4

EditorChars == {"a", "b"}

RECURSIVE TotalLen(_)
TotalLen(stack) == IF stack = <<>> THEN 0 ELSE Len(Head(stack)) + TotalLen(Tail(stack))

\* `stack.pop()`: the last element and the array without it; undefined (here
\* the empty text, which `!text` treats alike) for the empty array.
arrayShift(stack) ==
    IF stack = <<>> THEN [value |-> <<>>, rest |-> <<>>]
    ELSE [value |-> Head(stack), rest |-> Tail(stack)]
arrayPop(stack) ==
    IF stack = <<>> THEN [value |-> <<>>, rest |-> <<>>]
    ELSE [value |-> stack[Len(stack)], rest |-> SubSeq(stack, 1, Len(stack) - 1)]

\* piCutStack: `const stack: string[] = []`; the editor holds any text.
CutStackInit ==
    /\ ClientInit
    /\ eval \in [fn : {"piCutStack"}, editor : SeqUpTo(EditorChars, 1),
                  stack : {<<>>}, last : {[op |-> "none"]}]

\* The user types a character into the editor.
TypeChar(c) ==
    /\ eval.fn = "piCutStack"
    /\ Len(eval.editor) + TotalLen(eval.stack) < MaxText
    /\ eval' = [eval EXCEPT !.editor = Append(eval.editor, c), !.last = [op |-> "edit"]]
    /\ UNCHANGED <<variant, clientVars>>

\* The user deletes the last character of the editor.
Backspace ==
    /\ eval.fn = "piCutStack"
    /\ eval.editor # <<>>
    /\ eval' = [eval EXCEPT !.editor = SubSeq(eval.editor, 1, Len(eval.editor) - 1),
                            !.last = [op |-> "edit"]]
    /\ UNCHANGED <<variant, clientVars>>

handleCutKeepsEditor(hasUI) ==
    /\ eval.fn = "piCutStack"
    /\ IF ~hasUI \/ eval.editor = <<>>
       THEN eval' = [eval EXCEPT !.last = [op |-> "cut", hasUI |-> hasUI, toast |-> FALSE]]
       ELSE eval' = [eval EXCEPT
                       !.stack = Append(eval.stack, eval.editor),
                       !.last = [op |-> "cut", hasUI |-> hasUI, toast |-> FALSE]]
    /\ UNCHANGED <<variant, clientVars>>

\* handleCut(ctx, stack)
handleCut(hasUI) ==
    /\ eval.fn = "piCutStack"
    /\ IF ~hasUI \/ eval.editor = <<>>
       THEN eval' = [eval EXCEPT !.last = [op |-> "cut", hasUI |-> hasUI, toast |-> FALSE]]
       ELSE eval' = [eval EXCEPT
                       !.stack = Append(eval.stack, eval.editor),
                       !.editor = <<>>,
                       !.last = [op |-> "cut", hasUI |-> hasUI, toast |-> FALSE]]
    /\ UNCHANGED <<variant, clientVars>>

handlePopSilent(hasUI) ==
    /\ eval.fn = "piCutStack"
    /\ IF ~hasUI
       THEN eval' = [eval EXCEPT !.last = [op |-> "pop", hasUI |-> FALSE, toast |-> FALSE]]
       ELSE LET popped == arrayPop(eval.stack)
            IN  eval' = [eval EXCEPT
                           !.stack = popped.rest,
                           !.editor = eval.editor \o popped.value,
                           !.last = [op |-> "pop", hasUI |-> TRUE, toast |-> FALSE]]
    /\ UNCHANGED <<variant, clientVars>>

\* handlePop(ctx, stack), with showEmptyStackToast
handlePop(hasUI) ==
    /\ eval.fn = "piCutStack"
    /\ IF ~hasUI
       THEN eval' = [eval EXCEPT !.last = [op |-> "pop", hasUI |-> FALSE, toast |-> FALSE]]
       ELSE LET popped == arrayPop(eval.stack)
            IN  IF popped.value = <<>>
                THEN eval' = [eval EXCEPT
                                !.stack = popped.rest,
                                !.last = [op |-> "pop", hasUI |-> TRUE, toast |-> TRUE]]
                ELSE eval' = [eval EXCEPT
                                !.stack = popped.rest,
                                !.editor = eval.editor \o popped.value,
                                !.last = [op |-> "pop", hasUI |-> TRUE, toast |-> FALSE]]
    /\ UNCHANGED <<variant, clientVars>>

CutStackNext ==
    \/ \E c \in EditorChars : TypeChar(c)
    \/ Backspace
    \/ \E hasUI \in BOOLEAN : handleCut(hasUI)
    \/ \E hasUI \in BOOLEAN : handlePop(hasUI)

SpecCutStack == CutStackInit /\ [][CutStackNext]_vars

----------------------------------------------------------------------------
\* generateImage and parseSseForImage: image generation with endpoint
\* fallback.

\* Largest number of chunks without image data read from one stream.
MaxChunks == 2

IMAGE_GENERATION_TIMEOUT_MS == 60000

\* "Endpoint fallback order - daily first (most permissive), prod last."
ANTIGRAVITY_ENDPOINTS == <<"daily", "autopush", "prod">>

\* The errors generateImage collects before it moves on.
ErrorKinds == {"rate limited (429)", "http", "timeout", "network",
               "No image data returned by the model", "Request was aborted"}

\* The start of one turn of the loop over the endpoints, up to `await
\* fetch`: a new controller and its timer, the listener on the caller's
\* signal and the request to the k-th endpoint.
StartAttempt(ev, k) ==
    [ev EXCEPT !.pc = "fetch", !.i = k, !.timer = TRUE, !.chunks = 0,
               !.sent = Append(ev.sent, ANTIGRAVITY_ENDPOINTS[k])]

FallbackStops(ev, kind) ==
    [ev EXCEPT !.pc = "done", !.timer = FALSE,
               !.errors = Append(ev.errors, [endpoint |-> ANTIGRAVITY_ENDPOINTS[ev.i],
                                             kind |-> kind]),
               !.out = [kind |-> "failed", error |-> "All endpoints failed"]]
\* `errors.push(...)` and the next turn of the loop, or the throw after it.
Fallback(ev, kind) ==
    LET pushed == [ev EXCEPT !.timer = FALSE,
                             !.errors = Append(ev.errors,
                                               [endpoint |-> ANTIGRAVITY_ENDPOINTS[ev.i],
                                                kind |-> kind])]
    IN  IF ev.i < Len(ANTIGRAVITY_ENDPOINTS)
        THEN StartAttempt(pushed, ev.i + 1)
        ELSE [pushed EXCEPT !.pc = "done",
                            !.out = [kind |-> "failed", error |-> "All endpoints failed"]]

\* `throw new Error("Request was aborted")` out of the loop.
ThrowAborted(ev) ==
    [ev EXCEPT !.pc = "done", !.timer = FALSE,
               !.out = [kind |-> "failed", error |-> "Request was aborted"]]

\* execute has its credentials; the caller's signal is aborted or not.
ImageInit ==
    /\ ClientInit
    /\ eval \in [fn : {"generateImage"}, pc : {"idle"}, i : {0}, aborted : BOOLEAN,
                  timer : {FALSE}, chunks : {0}, sent : {<<>>}, errors : {<<>>},
                  out : {[kind |-> "pending"]}]

\* execute calls generateImage: the first turn of the loop.
GenerateImage ==
    /\ eval.fn = "generateImage"
    /\ eval.pc = "idle"
    /\ eval' = StartAttempt(eval, 1)
    /\ UNCHANGED <<variant, clientVars>>

\* The caller's signal is aborted.  The listener of the running turn aborts
\* its controller: the pending fetch, or the pending read of the body,
\* rejects with an AbortError, and the catch finds signal.aborted.
AbortImage ==
    /\ eval.fn = "generateImage"
    /\ ~eval.aborted
    /\ eval.pc # "done"
    /\ eval' = IF eval.pc = "idle"
               THEN [eval EXCEPT !.aborted = TRUE]
               ELSE ThrowAborted([eval EXCEPT !.aborted = TRUE])
    /\ UNCHANGED <<variant, clientVars>>

\* The timer aborts the controller while the fetch is pending.
ImageTimeout ==
    /\ eval.fn = "generateImage"
    /\ eval.pc = "fetch"
    /\ eval.timer
    /\ eval' = IF eval.aborted THEN ThrowAborted(eval) ELSE Fallback(eval, "timeout")
    /\ UNCHANGED <<variant, clientVars>>

\* The fetch settles otherwise: status 429, another status that is not ok,
\* whose body is then read as text, a network error, or an ok response, whose
\* body parseSseForImage starts to read after its test of signal.aborted.
FetchSettles(r) ==
    /\ eval.fn = "generateImage"
    /\ eval.pc = "fetch"
    /\ eval' = CASE r = "429" -> Fallback(eval, "rate limited (429)")
                 [] r = "notOk" -> [eval EXCEPT !.pc = "text", !.timer = FALSE]
                 [] r = "error" -> Fallback(eval, "network")
                 [] r = "ok" -> IF eval.aborted
                                THEN Fallback(eval, "Request was aborted")
                                ELSE [eval EXCEPT !.pc = "stream", !.timer = FALSE]
    /\ UNCHANGED <<variant, clientVars>>

\* `await response.text()` of a response that is not ok settles.
ErrorText(r) ==
    /\ eval.fn = "generateImage"
    /\ eval.pc = "text"
    /\ eval' = IF r = "read" THEN Fallback(eval, "http") ELSE Fallback(eval, "network")
    /\ UNCHANGED <<variant, clientVars>>

\* reader.read() yields a chunk: lines without image data, lines with image
\* data, or the end of the body.
StreamStep(r) ==
    /\ eval.fn = "generateImage"
    /\ eval.pc = "stream"
    /\ r = "chunk" => eval.chunks < MaxChunks
    /\ eval' = CASE r = "chunk" -> [eval EXCEPT !.chunks = eval.chunks + 1]
                 [] r = "image" -> [eval EXCEPT !.pc = "done",
                                      !.out = [kind |-> "image",
                                               endpoint |-> ANTIGRAVITY_ENDPOINTS[eval.i]]]
                 [] r = "end" -> Fallback(eval, "No image data returned by the model")
    /\ UNCHANGED <<variant, clientVars>>

ImageNext ==
    \/ GenerateImage
    \/ AbortImage
    \/ ImageTimeout
    \/ \E r \in {"429", "notOk", "error", "ok"} : FetchSettles(r)
    \/ \E r \in {"read", "error"} : ErrorText(r)
    \/ \E r \in {"chunk", "image", "end"} : StreamStep(r)

SpecImage == ImageInit /\ [][ImageNext]_vars

----------------------------------------------------------------------------
C2_InitializeBeforeToolCall ==
    [][\A c \in Calls :
         LET t == <<"tools/call", c>>
         IN  (send[t].stage = "none" /\ send'[t].stage = "fetch" /\ send'[t].sent)
             => send'[t].ep \in initOk']_vars

\* C3: a call that enters while the remembered endpoint is the resolved one
\* and a handshake on it succeeded since the last reset starts no handshake
\* and sends neither `initialize` nor the `initialized` notification.
C3_NoSecondHandshake ==
    [][\A c \in Calls :
         (/\ call[c].pc = "idle"
          /\ call'[c].pc \notin {"idle", "cancelled"}
          /\ session.lastEndpoint = cfgEndpoint
          /\ cfgEndpoint \in shaken)
         => /\ hs' = hs
            /\ \A h \in Calls :
                 /\ send'[<<"initialize", h>>] = send[<<"initialize", h>>]
                 /\ send'[<<"notifications/initialized", h>>]
                      = send[<<"notifications/initialized", h>>]]_vars

C5_ReadyEndpoint == session.initialized => readyEp = session.lastEndpoint

\* C6: at most one handshake attempt is in flight per endpoint.
C6_OneHandshakePerEndpoint ==
    \A e \in Endpoints : Cardinality({h \in Calls : InFlight(h) /\ hs[h].ep = e}) <= 1

\* C7: when a handshake attempt fails, the session is Uninitialized with no
\* handshake recorded as in flight, every call waiting for the attempt fails,
\* no request is sent and no id is consumed on its account; and the next call
\* that enters an Uninitialized session starts a handshake.
C7_HandshakeFailure ==
    [][/\ \A h \in Calls :
            (InFlight(h) /\ hs'[h].st = "failed")
            => /\ ~session'.initialized
               /\ session'.initializing = NoCall
               /\ session'.lastEndpoint = session.lastEndpoint
               /\ \A c \in Waiters(call, h) : call'[c].pc \in {"failed", "aborted"}
               /\ requestCounter' = requestCounter
               /\ \A s \in Slots : send'[s].stage = "fetch" => send[s].stage = "fetch"
       /\ \A c \in Calls :
            (/\ call[c].pc = "idle"
             /\ call'[c].pc \notin {"idle", "cancelled", "aborted"}
             /\ ~session.initialized
             /\ session.initializing = NoCall)
            => /\ hs'[c] = [st |-> "initReq", ep |-> cfgEndpoint]
               /\ send'[<<"initialize", c>>].stage = "fetch"
               /\ send'[<<"initialize", c>>].sent]_vars

\* C7 witness: the first handshake failed with its caller, and the next call
\* has started the handshake again.
C7_Witness ==
    /\ hs[1].st = "failed"
    /\ call[1].pc = "failed"
    /\ hs[2].st = "initReq"
    /\ session.initializing = 2

\* C8: a `tools/call` that fails writes no field of the session, so a Ready
\* session stays Ready on the same endpoint; and a call that enters a Ready
\* session on the remembered endpoint goes straight to its `tools/call`.
C8_ToolFailureKeepsSession ==
    [][/\ \A c \in Calls :
            (call[c].pc = "toolReq" /\ call'[c].pc \in {"failed", "aborted"})
            => session' = session
       /\ \A c \in Calls :
            (/\ call[c].pc = "idle"
             /\ call'[c].pc \notin {"idle", "cancelled"}
             /\ session.initialized
             /\ session.lastEndpoint = cfgEndpoint)
            => /\ hs' = hs
               /\ call'[c].pc = "toolReq"
               /\ \A s \in Slots \ {<<"tools/call", c>>} : send'[s] = send[s]]_vars

\* C8 witness: the first call got through its handshake and its `tools/call`
\* failed; the session is still Ready and the second call is in its
\* `tools/call` without a handshake of its own.
C8_Witness ==
    /\ hs[1].st = "ok"
    /\ call[1].pc \in {"failed", "aborted"}
    /\ session.initialized
    /\ hs[2].st = "unused"
    /\ call[2].pc = "toolReq"

\* C9: an execution either returns Cancelled at once, with the request
\* counter, the session, the handshakes and every send untouched, or it goes
\* on with a signal that was not aborted on entry (call'[c].aborted is the
\* state of the signal on entry).
C9_CancelledOnEntry ==
    [][\A c \in Calls :
         (call[c].pc = "idle" /\ call'[c].pc # "idle")
         => IF call'[c].pc = "cancelled"
            THEN /\ requestCounter' = requestCounter
                 /\ send' = send
                 /\ hs' = hs
                 /\ session' = session
            ELSE ~call'[c].aborted]_vars

\* C9 witness: the first execution returned Cancelled and no id was consumed.
C9_Witness ==
    /\ call[1].pc = "cancelled"
    /\ requestCounter = 0
    /\ \A s \in Slots : send[s] = NoSend

\* C10: a send under way holds one merged signal (the timer armed and, when
\* there is a caller signal that is not aborted, one listener on it); a send
\* that returned, threw, or handed the response body over to the stream
\* reader holds neither a pending timer nor a listener.
C10_CleanupOnEveryPath ==
    \A s \in Slots :
        /\ send[s].stage = "fetch"
             => /\ send[s].timer
                /\ ~send[s].cleaned
                /\ send[s].listener <=> (send[s].parent # NoCall /\ ~send[s].aborted)
        /\ send[s].stage # "fetch" => ~send[s].timer /\ ~send[s].listener
        /\ send[s].stage = "sse" => send[s].cleaned

\* C10 witness: a `tools/call` carrying the caller's signal got its response
\* headers and cleanup has run.
C10_Witness ==
    \E c \in Calls :
        /\ send[<<"tools/call", c>>].stage = "sse"
        /\ send[<<"tools/call", c>>].parent = c
        /\ send[<<"tools/call", c>>].cleaned
        /\ ~send[<<"tools/call", c>>].timer
        /\ ~send[<<"tools/call", c>>].listener

\* C11: once the caller's signal is aborted while its `tools/call` is under
\* way, the call ends with the cancellation and never with a result or with
\* another error.
C11_CancelAbortsTransport ==
    [][\A c \in Calls :
         (call[c].pc = "toolReq" /\ call[c].aborted)
         => call'[c].pc \in {"toolReq", "aborted"}]_vars

\* C12: every pending timer belongs to a send that still waits for its
\* fetch, and every attached listener sits on the signal of a call that is
\* still under way and whose signal has not fired; a call that was cancelled
\* leaves neither behind, so nothing of it can abort a later call.
C12_NothingLeftOver ==
    \A s \in Slots :
        /\ send[s].timer => send[s].stage = "fetch"
        /\ send[s].listener
             => /\ send[s].stage = "fetch"
                /\ send[s].parent \in Calls
                /\ call[send[s].parent].pc \in {"waitHs", "toolReq"}
                /\ ~call[send[s].parent].aborted

\* C12 witness: the first call was cancelled in flight and the second call,
\* with a signal of its own, has its `tools/call` under way.
C12_Witness ==
    /\ call[1].pc = "aborted"
    /\ call[2].pc = "toolReq"
    /\ send[<<"tools/call", 2>>].stage = "fetch"
    /\ send[<<"tools/call", 2>>].listener
    /\ ~call[2].aborted

\* C13: the requests under way carry pairwise different ids, none above the
\* counter, and a notification carries none (0 stands for no id); the counter
\* never decreases and a request that is issued gets an id above the counter
\* as it was, hence above every id issued before.
C13_FreshIds ==
    /\ [](\A s, t \in Slots :
            /\ (send[s].stage # "none" /\ s[1] = "notifications/initialized")
                 => send[s].id = 0
            /\ (send[s].stage # "none" /\ s[1] # "notifications/initialized")
                 => send[s].id \in 1..requestCounter
            /\ (/\ s # t
                /\ send[s].stage # "none" /\ s[1] # "notifications/initialized"
                /\ send[t].stage # "none" /\ t[1] # "notifications/initialized")
                 => send[s].id # send[t].id)
    /\ [][/\ requestCounter' >= requestCounter
          /\ \A s \in Slots :
               (/\ s[1] # "notifications/initialized"
                /\ send[s].stage = "none"
                /\ send'[s].stage = "fetch")
               => send'[s].id \in (requestCounter + 1)..requestCounter']_vars

\* C13 witness: after the handshake of the first call (id 1) the two calls
\* that waited for it have their `tools/call` under way with ids 2 and 3.
C13_Witness ==
    /\ send[<<"tools/call", 1>>].stage = "fetch"
    /\ send[<<"tools/call", 1>>].id = 2
    /\ send[<<"tools/call", 2>>].stage = "fetch"
    /\ send[<<"tools/call", 2>>].id = 3
    /\ requestCounter = 3

\* C14: whatever sendRequest returns as the result, or throws as the error,
\* of a request is taken from a response object whose id is the id of the
\* request.
C14_AnswerHasRequestId ==
    (eval.fn = "sendRequest" /\ eval.out.kind \in {"result", "rpcError"})
    => eval.out.json.id = eval.requestId

\* C15: when the body holds a line that is the frame with the request id
\* (a frame here is a `data:` line, ended by its newline), the decoder ends
\* by returning that frame, whatever lines come before it; it has then
\* cancelled the reader and handled no line after the first such line.
C15_FirstMatchStops ==
    (/\ eval.fn = "parseSseResponse"
     /\ eval.out.kind # "pending"
     /\ MatchEnds(eval.input, eval.requestId) # {})
    => LET m     == MatchEnds(eval.input, eval.requestId)
           first == CHOOSE j \in m : \A k \in m : j <= k
       IN  /\ eval.out = [kind |-> "returned", id |-> eval.requestId]
           /\ eval.cancelled
           /\ eval.examined = LineNo(eval.input, first)
           /\ eval.pos >= first

\* C15 witness: three frames with three different ids, the one with the
\* request id second; it was returned after two lines and the third frame
\* was never read.
C15_Witness ==
    /\ eval.fn = "parseSseResponse"
    /\ eval.out.kind = "returned"
    /\ Len(eval.input) = 3
    /\ \A i \in 1..3 : eval.input[i].nl
    /\ {eval.input[i].body : i \in 1..3} = FrameBodies
    /\ FrameIdOf[eval.input[2].body] = eval.requestId
    /\ eval.examined = 2
    /\ eval.pos = 2

\* C16: the decoder throws only at the end of the body, with the error of a
\* missing result, after it has handled every line of the body, and then no
\* frame of the body has the request id, neither a line nor the unterminated
\* last frame; lines of any other kind make it throw nowhere.
C16_OnlyAbsenceFails ==
    (eval.fn = "parseSseResponse" /\ eval.out.kind = "thrown")
    => /\ eval.out.error = "noMatchingResult"
       /\ eval.pos = Len(eval.input)
       /\ eval.examined = Cardinality(LineEnds(eval.input))
       /\ MatchEnds(eval.input, eval.requestId) = {}
       /\ LET r == Text(Residual(eval.input))
          IN  ~(Len(r) = 1 /\ r[1] \in FrameBodies
                /\ FrameIdOf[r[1]] = eval.requestId)

\* C17: the decoder does not throw when what follows the last newline of the
\* body is the frame with the request id.
C17_ResidualParsed ==
    (eval.fn = "parseSseResponse" /\ eval.out.kind = "thrown")
    => LET r == Text(Residual(eval.input))
       IN  ~(Len(r) = 1 /\ r[1] \in FrameBodies /\ FrameIdOf[r[1]] = eval.requestId)

\* C18: any two overflow files written so far, also two written for the same
\* tool name at the same reading of the clock, have different paths, and the
\* file of every spill still holds the text of that spill.
C18_NoCollision ==
    eval.fn = "formatToolOutput"
    => /\ \A i, j \in 1..Len(eval.log) :
             i # j => eval.log[i].path # eval.log[j].path
       /\ \A i \in 1..Len(eval.log) : eval.log[i] \in eval.files

\* C19: a returned output names a file exactly when it is truncated, and that
\* file then holds the whole text; a step writes a file only to return a
\* truncated output that names it, and an output that is not truncated or a
\* failure leaves the files as they were.
C19_FileIffTruncated ==
    /\ [](eval.fn = "formatToolOutput" /\ eval.last.kind = "returned"
           => IF eval.last.truncated
              THEN /\ eval.last.tempFile # NoPath
                   /\ [path |-> eval.last.tempFile, content |-> eval.last.rawText]
                         \in eval.files
                   /\ eval.last.notice = eval.last.tempFile
              ELSE /\ eval.last.tempFile = NoPath
                   /\ eval.last.notice = NoPath
                   /\ eval.last.firstLine \in {"none", "N/A"})
    /\ [][eval.fn = "formatToolOutput"
           => /\ eval'.files # eval.files
                 => /\ eval'.last.kind = "returned"
                    /\ eval'.last.truncated
                    /\ eval'.log = Append(eval.log, [path |-> eval'.last.tempFile,
                                                     content |-> eval'.last.rawText])
              /\ (eval'.last # eval.last /\ eval'.last.kind = "returned"
                  /\ eval'.last.truncated)
                 => Len(eval'.log) = Len(eval.log) + 1
              /\ (eval'.last # eval.last /\ ~(eval'.last.kind = "returned"
                                             /\ eval'.last.truncated))
                 => eval'.files = eval.files /\ eval'.log = eval.log]_vars

\* C19 witness: one truncated output wrote its file, and the output after
\* it, not truncated, names no file and wrote none.
C19_Witness ==
    /\ eval.fn = "formatToolOutput"
    /\ Len(eval.log) = 1
    /\ eval.files = {eval.log[1]}
    /\ eval.log[1].content = "t1"
    /\ eval.last.kind = "returned"
    /\ ~eval.last.truncated
    /\ eval.last.rawText = "t2"
    /\ eval.last.tempFile = NoPath

\* C21: in each dimension the effective limit is never above the configured
\* maximum; it is the configured maximum when no number is requested, and
\* otherwise the requested number when that is not above the maximum and the
\* maximum when it is; the bytes limit does not depend on the lines of the
\* request or of the configuration, nor the lines limit on the bytes.
C21_Clamped ==
    (eval.fn = "resolveEffectiveLimits" /\ eval.out.kind = "returned")
    => LET req == eval.out.requestedLimits
           eff == eval.out.effectiveLimits
           max == eval.maxAllowed
       IN  /\ eff.maxBytes <= max.maxBytes
           /\ eff.maxLines <= max.maxLines
           /\ ~req.maxBytes.def => eff.maxBytes = max.maxBytes
           /\ ~req.maxLines.def => eff.maxLines = max.maxLines
           /\ req.maxBytes.def =>
                 /\ eff.maxBytes <= req.maxBytes.n
                 /\ eff.maxBytes \in {req.maxBytes.n, max.maxBytes}
           /\ req.maxLines.def =>
                 /\ eff.maxLines <= req.maxLines.n
                 /\ eff.maxLines \in {req.maxLines.n, max.maxLines}

\* C21 witness: more bytes than configured and fewer lines than configured
\* are requested; the bytes are cut to the maximum and the lines are kept.
C21_Witness ==
    /\ eval.fn = "resolveEffectiveLimits"
    /\ eval.out.kind = "returned"
    /\ eval.params.piMaxBytes = [type |-> "string", text |-> "numeral", n |-> 3]
    /\ eval.params.piMaxLines = [type |-> "number", n |-> 1]
    /\ eval.maxAllowed = [maxBytes |-> 2, maxLines |-> 3]
    /\ eval.out.effectiveLimits = [maxBytes |-> 2, maxLines |-> 1]

\* C22: a cut with a non-empty editor appends the whole editor text to the
\* stack and empties the editor; a cut with an empty editor leaves the stack
\* and the editor as they were.
C22_CutPushesAndClears ==
    [][(eval.fn = "piCutStack" /\ eval'.last.op = "cut" /\ eval'.last.hasUI)
       => IF eval.editor # <<>>
          THEN /\ eval'.stack = eval.stack \o <<eval.editor>>
               /\ eval'.editor = <<>>
          ELSE /\ eval'.stack = eval.stack
               /\ eval'.editor = eval.editor]_vars

\* C22 witness: the text "ab" was cut onto a stack that held "b".
C22_Witness ==
    /\ eval.fn = "piCutStack"
    /\ eval.last.op = "cut"
    /\ eval.last.hasUI
    /\ eval.stack = << <<"b">>, <<"a", "b">> >>
    /\ eval.editor = <<>>

\* C23: a pop with a non-empty stack removes the entry that was put on the
\* stack last among those still on it, and sets the editor to its text
\* followed by that entry; entries below it stay in their order.
C23_PopIsLifo ==
    [][(/\ eval.fn = "piCutStack"
        /\ eval'.last.op = "pop"
        /\ eval'.last.hasUI
        /\ eval.stack # <<>>)
       => /\ eval.stack = eval'.stack \o <<eval.stack[Len(eval.stack)]>>
          /\ eval'.editor = eval.editor \o eval.stack[Len(eval.stack)]
          /\ ~eval'.last.toast]_vars

\* C23 witness: "a" then "b" were cut, "a" was typed and the pop gave "ab",
\* leaving "a" on the stack.
C23_Witness ==
    /\ eval.fn = "piCutStack"
    /\ eval.last.op = "pop"
    /\ eval.last.hasUI
    /\ eval.stack = << <<"a">> >>
    /\ eval.editor = <<"a", "b">>

\* C24: a pop with an empty stack shows the notification and leaves the
\* stack empty and the editor as it was; the notification is shown by no
\* other pop, because no entry of the stack is ever the empty text.
C24_EmptyStackToast ==
    /\ [](eval.fn = "piCutStack" => \A i \in 1..Len(eval.stack) : eval.stack[i] # <<>>)
    /\ [][(eval.fn = "piCutStack" /\ eval'.last.op = "pop" /\ eval'.last.hasUI)
           => /\ eval'.last.toast <=> eval.stack = <<>>
              /\ eval.stack = <<>>
                 => eval'.stack = <<>> /\ eval'.editor = eval.editor]_vars

\* C24 witness: the notification was shown with an empty stack and text in
\* the editor.
C24_Witness ==
    /\ eval.fn = "piCutStack"
    /\ eval.last.op = "pop"
    /\ eval.last.toast
    /\ eval.stack = <<>>
    /\ eval.editor = <<"a", "b">>

\* C25: requests go to daily, autopush, prod in this order, each at most
\* once; when an endpoint answers 429 or its fetch times out (the caller's
\* signal not aborted), the same step sends the request to the next endpoint
\* if there is one; the step that finds image data ends the call with the
\* image of the endpoint asked last and sends nothing; the call fails with
\* "All endpoints failed" only with a failure recorded for each of the three
\* endpoints, and a call whose signal is not aborted ends in no other way.
C25_FallbackOrder ==
    /\ [](eval.fn = "generateImage"
           => /\ eval.sent = SubSeq(ANTIGRAVITY_ENDPOINTS, 1, Len(eval.sent))
              /\ eval.out.kind = "image"
                 => /\ eval.out.endpoint = eval.sent[Len(eval.sent)]
                    /\ Len(eval.errors) = Len(eval.sent) - 1
              /\ (eval.out.kind = "failed" /\ eval.out.error = "All endpoints failed")
                 => /\ eval.sent = ANTIGRAVITY_ENDPOINTS
                    /\ Len(eval.errors) = Len(ANTIGRAVITY_ENDPOINTS)
                    /\ \A k \in 1..Len(ANTIGRAVITY_ENDPOINTS) :
                          eval.errors[k].endpoint = ANTIGRAVITY_ENDPOINTS[k]
              /\ (eval.out.kind = "failed" /\ ~eval.aborted)
                 => eval.out.error = "All endpoints failed")
    /\ [][eval.fn = "generateImage"
           => /\ (/\ Len(eval'.errors) = Len(eval.errors) + 1
                  /\ eval'.errors[Len(eval'.errors)].kind
                        \in {"rate limited (429)", "timeout"}
                  /\ eval.i < Len(ANTIGRAVITY_ENDPOINTS))
                 => /\ eval'.sent = Append(eval.sent, ANTIGRAVITY_ENDPOINTS[eval.i + 1])
                    /\ eval'.pc = "fetch"
                    /\ eval'.out.kind = "pending"
              /\ (eval.pc = "fetch" /\ eval.timer /\ ~eval'.timer /\ ~eval'.aborted
                  /\ eval'.pc = "done")
                 => eval.i = Len(ANTIGRAVITY_ENDPOINTS)
              /\ eval'.out.kind = "image" => eval'.sent = eval.sent
              /\ eval.pc = "done" => eval' = eval]_vars

\* C25 witness: daily answered 429, autopush timed out, prod gave the image.
C25_Witness ==
    /\ eval.fn = "generateImage"
    /\ ~eval.aborted
    /\ eval.out = [kind |-> "image", endpoint |-> "prod"]
    /\ eval.errors = <<[endpoint |-> "daily", kind |-> "rate limited (429)"],
                       [endpoint |-> "autopush", kind |-> "timeout"]>>

\* C26: in every handshake the `initialize` request is sent first and alone;
\* the `initialized` notification is sent only in the step in which the
\* `initialize` of the same handshake returns its result; a JSON-RPC error
\* (or any other failure) of `initialize` ends the handshake with no
\* notification sent; the session becomes Ready only in the step in which
\* the notification of a handshake succeeds, and its remembered endpoint is
\* then the endpoint of that handshake.
C26_HandshakeSequence ==
    [][\A c \in Calls :
         LET I == <<"initialize", c>>
             N == <<"notifications/initialized", c>>
         IN  /\ (hs[c].st = "unused" /\ hs'[c].st # "unused")
                => /\ hs'[c].st = "initReq"
                   /\ send'[I].stage = "fetch"
                   /\ send'[N].stage = "none"
             /\ (send[N].stage = "none" /\ send'[N].stage # "none")
                => /\ hs[c].st = "initReq"
                   /\ hs'[c].st = "notif"
                   /\ send[I].stage \in {"fetch", "sse"}
                   /\ send'[I].stage = "none"
                   /\ send'[N].ep = hs[c].ep
             /\ (\/ \E r \in RequestAnswers \ {"result"} : Respond(I, r)
                 \/ \E r \in StreamAnswers \ {"result"} : SseDeliver(I, r))
                => /\ send'[N].stage = "none"
                   /\ hs'[c].st = "failed"
             /\ (~session.initialized /\ session'.initialized)
                => \E h \in Calls :
                      /\ hs[h].st = "notif"
                      /\ hs'[h].st = "ok"
                      /\ session'.lastEndpoint = hs[h].ep]_vars

\* C27: every message has its own timer from the step that sends it until
\* its fetch settles: a message whose fetch is pending has its timer armed,
\* no other message holds a timer, and the step in which the timer of one
\* message fires ends that message only and leaves every other message in
\* flight, with its timer, as it was.
C27_TimeoutPerRequest ==
    /\ [](\A s \in Slots : send[s].timer <=> send[s].stage = "fetch")
    /\ [][\A s \in Slots :
             Timeout(s)
             => /\ send'[s].stage = "none"
                /\ \A x \in Slots \ {s} :
                      send[x].stage \in {"fetch", "sse"} => send'[x] = send[x]]_vars

\* C27 witness: the handshake of call 1 is over and its two timers are gone,
\* the `tools/call` of call 2 has ended with an abort, and the `tools/call`
\* of call 1 is still pending with its own timer.
C27_Witness ==
    /\ hs[1].st = "ok"
    /\ send[<<"initialize", 1>>] = NoSend
    /\ send[<<"notifications/initialized", 1>>] = NoSend
    /\ call[2].pc = "aborted"
    /\ send[<<"tools/call", 2>>] = NoSend
    /\ call[1].pc = "toolReq"
    /\ send[<<"tools/call", 1>>].stage = "fetch"
    /\ send[<<"tools/call", 1>>].timer

\* C28: every execution that is waiting, for its handshake or for the answer
\* to its `tools/call`, eventually returns or throws, whether the server
\* answers or not.
C28_EventuallyCompletes ==
    \A c \in SpecCalls :
        (call[c].pc \in {"waitHs", "toolReq"}) ~> (call[c].pc \notin {"waitHs", "toolReq"})

\* C29: the step in which the signal of one caller is aborted ends the call
\* of no other caller, also when both wait for the same handshake.
C29_OtherCallersUnaffected ==
    [][\A c \in Calls :
         Abort(c)
         => \A d \in Calls \ {c} :
               call[d].pc \in {"waitHs", "toolReq"} => call'[d].pc = call[d].pc]_vars

\* C30: once the caller's signal is aborted no request is sent any more, also
\* when it is aborted before generateImage is entered, and a call that ends
\* with its signal aborted ends with "Request was aborted".
C30_AbortStopsFallback ==
    /\ []((eval.fn = "generateImage" /\ eval.aborted /\ eval.pc = "done")
           => eval.out = [kind |-> "failed", error |-> "Request was aborted"])
    /\ [][(eval.fn = "generateImage" /\ eval.aborted) => eval'.sent = eval.sent]_vars

====
